---- MODULE Spec2Model ----
(***************************************************************************)
(* process_f1_data (f1_dashboard_data.py): five CSV tables are read into   *)
(* data frames, five aggregations are computed one after the other, and    *)
(* five CSV files are written at the very end.                             *)
(*                                                                         *)
(* A data frame is a sequence of rows; a row is a record that carries the  *)
(* pandas index label of the row in the field "index".  A cell is a        *)
(* pandas scalar: a number (kept as a normalised fraction, so that means   *)
(* are exact), a string, or NaN.                                           *)
(***************************************************************************)
EXTENDS Integers, Sequences, FiniteSets, TLC

\* ------------------------------------------------------------------------
\* Bounds of the model
\* ------------------------------------------------------------------------
\* most rows of results.csv
MaxResultRows == 3
\* most rows of results.csv and of qualifying.csv when both tables vary
MaxJoinRows == 2

DriverIds == {1, 2}
RaceIds == {1, 2}
ConstructorIds == {1, 2}
Forenames == {"Jos", "Max"}
Surname == "Verstappen"
\* the forenames in the order of Python's string comparison
SortedForenames == <<"Jos", "Max">>
TeamNameOf == [c \in ConstructorIds |-> IF c = 1 THEN "Red Bull" ELSE "Ferrari"]
RetiredCode == "R"
\* the tokens of a position and of a points cell: numbers, or the code
PositionTokens == {"1", "2", RetiredCode}
PointsTokens == {"1", "2", RetiredCode}

\* ------------------------------------------------------------------------
\* pandas scalars
\* ------------------------------------------------------------------------
RECURSIVE GCD(_, _)
GCD(a, b) == IF b = 0 THEN a ELSE GCD(b, a % b)

Abs(a) == IF a < 0 THEN -a ELSE a

\* the number n/d, d > 0, in lowest terms
Rat(n, d) ==
    LET g == GCD(Abs(n), d)
    IN  [k |-> "num", n |-> n \div g, d |-> d \div g, s |-> ""]

Num(n) == [k |-> "num", n |-> n, d |-> 1, s |-> ""]
Str(t) == [k |-> "str", n |-> 0, d |-> 1, s |-> t]
NaN == [k |-> "nan", n |-> 0, d |-> 1, s |-> ""]

isna(c) == c.k = "nan"
notna(c) == ~isna(c)

\* a - b on numbers, NaN when either is NaN
Sub(a, b) ==
    IF a.k = "num" /\ b.k = "num"
    THEN Rat(a.n * b.d - b.n * a.d, a.d * b.d)
    ELSE NaN

\* a + b on strings (concatenation), NaN when either is NaN
Concat(a, b) ==
    IF a.k = "str" /\ b.k = "str" THEN Str(a.s \o b.s) ELSE NaN

\* a < b on numbers
Less(a, b) == a.n * b.d < b.n * a.d

\* the tokens that parse as a number (one digit is all the tables hold)
NumericTokens == {ToString(n) : n \in 0 .. 9}
ParseInt(t) == CHOOSE n \in 0 .. 9 : ToString(n) = t

\* pd.to_numeric(x, errors='coerce') on one cell
to_numeric_coerce(c) ==
    IF c.k = "num" THEN c
    ELSE IF c.k = "str" /\ c.s \in NumericTokens THEN Num(ParseInt(c.s))
    ELSE NaN

\* ------------------------------------------------------------------------
\* sequences
\* ------------------------------------------------------------------------
Range(f) == {f[i] : i \in DOMAIN f}

RECURSIVE SumInts(_)
SumInts(q) == IF q = <<>> THEN 0 ELSE Head(q) + SumInts(Tail(q))

RECURSIVE Flatten(_)
Flatten(qq) == IF qq = <<>> THEN <<>> ELSE Head(qq) \o Flatten(Tail(qq))

\* the integers of S in increasing order
RECURSIVE SortedInts(_)
SortedInts(S) ==
    IF S = {} THEN <<>>
    ELSE LET m == CHOOSE x \in S : \A y \in S : x <= y
         IN  <<m>> \o SortedInts(S \ {m})

\* pandas gives a fresh frame the labels 0, 1, 2, ...
reset_index(rows) ==
    [i \in DOMAIN rows |->
        [c \in DOMAIN rows[i] |-> IF c = "index" THEN i - 1 ELSE rows[i][c]]]

\* the row of df with index label l
Loc(df, l) == df[CHOOSE i \in DOMAIN df : df[i].index = l]
Labels(df) == {df[i].index : i \in DOMAIN df}

\* ------------------------------------------------------------------------
\* pandas operations
\* ------------------------------------------------------------------------
\* df[c] as a sequence of cells
Col(df, c) == [i \in DOMAIN df |-> df[i][c]]

\* df with the series cells as its column c (df[c] = cells)
Assign(df, c, cells) ==
    [i \in DOMAIN df |->
        [x \in DOMAIN df[i] \cup {c} |-> IF x = c THEN cells[i] ELSE df[i][x]]]

\* pd.to_numeric(series, errors='coerce')
to_numeric(cells) == [i \in DOMAIN cells |-> to_numeric_coerce(cells[i])]

\* a - b on two series of one frame
Minus(a, b) == [i \in DOMAIN a |-> Sub(a[i], b[i])]

\* a + ' ' + b on two series of one frame
SpaceJoined(a, b) == [i \in DOMAIN a |-> Concat(Concat(a[i], Str(" ")), b[i])]

\* df[[cols]]: the index label stays
Project(df, cols) ==
    [i \in DOMAIN df |-> [x \in cols \cup {"index"} |-> df[i][x]]]

\* df.rename(columns={old: new})
Rename(df, old, new) ==
    [i \in DOMAIN df |->
        [x \in (DOMAIN df[i] \ {old}) \cup {new} |->
            IF x = new THEN df[i][old] ELSE df[i][x]]]

\* pd.merge(left, right, on=on, how=how); rightcols are the columns the
\* right frame adds.  The row order is that of the left frame, and the
\* result has a fresh index.
merge(left, right, on, rightcols, how) ==
    LET Match(l, r) == \A c \in on : l[c] = r[c]
        Joined(l, r) ==
            [x \in DOMAIN l \cup rightcols |-> IF x \in rightcols THEN r[x] ELSE l[x]]
        Unmatched(l) ==
            [x \in DOMAIN l \cup rightcols |-> IF x \in rightcols THEN NaN ELSE l[x]]
        RowsFor(l) ==
            LET m == SelectSeq(right, LAMBDA r : Match(l, r))
            IN  IF m # <<>> THEN [j \in DOMAIN m |-> Joined(l, m[j])]
                ELSE IF how = "left" THEN <<Unmatched(l)>>
                ELSE <<>>
    IN  reset_index(Flatten([i \in DOMAIN left |-> RowsFor(left[i])]))

\* df.dropna(subset=cols)
dropna(df, cols) == SelectSeq(df, LAMBDA r : \A c \in cols : notna(r[c]))

\* Series.count() in the place of Series.nunique()
count(cells) == Num(Len(cells))

\* Series.nunique(): the number of distinct values
nunique(cells) == Num(Cardinality(Range(cells)))

\* Series.sum(skipna=False): one NaN makes the sum NaN
sum_with_nan(cells) ==
    IF \E i \in DOMAIN cells : isna(cells[i]) THEN NaN
    ELSE Num(SumInts([i \in DOMAIN cells |-> cells[i].n]))

\* Series.sum(): NaN is skipped, an empty or all-NaN series sums to 0
sum(cells) ==
    LET v == SelectSeq(cells, notna)
    IN  Num(SumInts([i \in DOMAIN v |-> v[i].n]))

\* Series.mean(): NaN is skipped
mean(cells) ==
    LET v == SelectSeq(cells, notna)
    IN  IF v = <<>> THEN NaN
        ELSE Rat(SumInts([i \in DOMAIN v |-> v[i].n]), Len(v))

\* the position of a driver name in Python's string order
NameRank(name) ==
    CHOOSE i \in DOMAIN SortedForenames :
        name.s = SortedForenames[i] \o " " \o Surname

\* the names of S in increasing order
RECURSIVE SortedNames(_)
SortedNames(S) ==
    IF S = {} THEN <<>>
    ELSE LET m == CHOOSE x \in S : \A y \in S : NameRank(x) <= NameRank(y)
         IN  <<m>> \o SortedNames(S \ {m})

\* the reduction named how of a series
Reduce(how, cells) ==
    CASE how = "nunique" -> nunique(cells)
      [] how = "sum" -> sum(cells)
      [] how = "mean" -> mean(cells)

\* the frame of one row per key, the column col reduced over the key's rows
Grouped(df, keys, key, col, how) ==
    [g \in DOMAIN keys |->
        [x \in {"index", key, col} |->
            IF x = "index" THEN g - 1
            ELSE IF x = key THEN keys[g]
            ELSE Reduce(how, Col(SelectSeq(df, LAMBDA r : r[key] = keys[g]), col))]]

\* df.groupby(key)[col].how().reset_index() for an integer key: one row
\* per key of df, in increasing key order
groupby_id(df, key, col, how) ==
    Grouped(df, SortedInts({df[i][key] : i \in DOMAIN df}), key, col, how)

\* the same for a string key: groupby drops the rows whose key is NaN
groupby_name(df, key, col, how) ==
    Grouped(df, SortedNames({df[i][key] : i \in DOMAIN df} \ {NaN}), key, col, how)

\* a comes strictly before b in df.sort_values (NaN goes last)
Before(a, b, ascending) ==
    IF isna(a) THEN FALSE
    ELSE IF isna(b) THEN TRUE
    ELSE IF ascending THEN Less(a, b) ELSE Less(b, a)

\* r put into the sorted frame q after every row that does not come after it
InsertRow(q, r, by, ascending) ==
    LET after == {j \in DOMAIN q : Before(r[by], q[j][by], ascending)}
        at == IF after = {} THEN Len(q) + 1
              ELSE CHOOSE j \in after : \A m \in after : j <= m
    IN  SubSeq(q, 1, at - 1) \o <<r>> \o SubSeq(q, at, Len(q))

\* df.sort_values(by=by, ascending=ascending): rows keep their index label,
\* rows with equal values keep their order
RECURSIVE sort_values(_, _, _)
sort_values(df, by, ascending) ==
    IF df = <<>> THEN <<>>
    ELSE InsertRow(sort_values(SubSeq(df, 1, Len(df) - 1), by, ascending),
                   df[Len(df)], by, ascending)

\* ------------------------------------------------------------------------
\* The input directory
\* ------------------------------------------------------------------------
InputFiles == {"drivers.csv", "races.csv", "results.csv", "qualifying.csv",
               "constructors.csv"}
OutputFiles == {"average_positions_gained.csv", "total_career_races.csv",
                "average_career_finish_position.csv",
                "total_career_points_drivers.csv",
                "total_career_points_teams.csv"}


File(rows) == [exists |-> TRUE, rows |-> rows]
NoFile == [exists |-> FALSE, rows |-> <<>>]

\* the rows of S in one fixed order (the order plays no part in any output)
RECURSIVE SetToSeq(_)
SetToSeq(S) ==
    IF S = {} THEN <<>>
    ELSE LET r == CHOOSE x \in S : TRUE IN <<r>> \o SetToSeq(S \ {r})

\* the subsets of S of at most n elements
RECURSIVE UpTo(_, _)
UpTo(S, n) ==
    IF n = 0 THEN {{}}
    ELSE LET T == UpTo(S, n - 1)
         IN  T \cup {t \cup {x} : t \in T, x \in S}

\* drivers.csv: any drivers, driverId unique, two drivers may share a name
DriverTables ==
    {SetToSeq({[driverId |-> d, forename |-> f[d], surname |-> Surname] : d \in D}) :
        f \in [DriverIds -> Forenames], D \in SUBSET DriverIds}

ConstructorTables ==
    {SetToSeq({[constructorId |-> c, name |-> TeamNameOf[c]] : c \in C}) :
        C \in SUBSET ConstructorIds}

RaceTable == SetToSeq({[raceId |-> r] : r \in RaceIds})

\* result rows that differ in race, driver and finishing position
PositionRows ==
    {[raceId |-> r, driverId |-> d, constructorId |-> d, positionOrder |-> p,
      points |-> "1"] : r \in RaceIds, d \in DriverIds, p \in PositionTokens}

\* result rows that differ in race, driver, constructor and points
PointsRows ==
    {[raceId |-> r, driverId |-> d, constructorId |-> c, positionOrder |-> "1",
      points |-> t] :
        r \in RaceIds, d \in DriverIds, c \in ConstructorIds, t \in PointsTokens}

QualifyingRows ==
    {[raceId |-> r, driverId |-> d, position |-> p] :
        r \in RaceIds, d \in DriverIds, p \in PositionTokens}

Dir(drivers, results, qualifying, constructors) ==
    [f \in InputFiles |->
        CASE f = "drivers.csv" -> File(drivers)
          [] f = "races.csv" -> File(RaceTable)
          [] f = "results.csv" -> File(results)
          [] f = "qualifying.csv" -> File(qualifying)
          [] f = "constructors.csv" -> File(constructors)]

AllConstructors ==
    SetToSeq({[constructorId |-> c, name |-> TeamNameOf[c]] : c \in ConstructorIds})

\* driver 1 is Max Verstappen; driver 2 is missing, his namesake, or Jos
NamedDriverTables == {t \in DriverTables : \E i \in DOMAIN t : t[i].driverId = 1 /\ t[i].forename = "Max"}

\* the sets of rows in which (raceId, driverId) identifies a row
Keyed(SS) ==
    {S \in SS : \A x, y \in S : x.raceId = y.raceId /\ x.driverId = y.driverId => x = y}

\* qualifying and results both vary, (raceId, driverId) is a key of each
JoinInput(dir) ==
    \E dr \in NamedDriverTables,
       rs \in Keyed(UpTo(PositionRows, MaxJoinRows)),
       qs \in Keyed(UpTo(QualifyingRows, MaxJoinRows)) :
        dir = Dir(dr, SetToSeq(rs), SetToSeq(qs), AllConstructors)

\* the results vary in their positions; a driver may have several rows of
\* one race
PositionInput(dir) ==
    \E dr \in DriverTables, rs \in UpTo(PositionRows, MaxResultRows) :
        dir = Dir(dr, SetToSeq(rs), <<>>, AllConstructors)

\* the results vary in their points and constructors
PointsInput(dir) ==
    \E dr \in NamedDriverTables, rs \in Keyed(UpTo(PointsRows, MaxResultRows)),
       cs \in ConstructorTables :
        dir = Dir(dr, SetToSeq(rs), <<>>, cs)

\* the scenario of one driver, one race, one constructor
Scenario ==
    Dir(<<[driverId |-> 1, forename |-> "Max", surname |-> Surname]>>,
        <<[raceId |-> 1, driverId |-> 1, constructorId |-> 1,
           positionOrder |-> "2", points |-> "1"]>>,
        <<[raceId |-> 1, driverId |-> 1, position |-> "1"]>>,
        <<[constructorId |-> 1, name |-> TeamNameOf[1]]>>)

\* some of the five files are not there
MissingInput(dir) ==
    \E M \in SUBSET InputFiles \ {{}} :
        dir = [f \in InputFiles |-> IF f \in M THEN NoFile ELSE Scenario[f]]

\* ------------------------------------------------------------------------
\* pd.read_csv
\* ------------------------------------------------------------------------
\* a column whose tokens are all numbers is read as numbers, any other
\* column as strings
ReadColumn(rows, c) ==
    IF \A i \in DOMAIN rows : rows[i][c] \in NumericTokens
    THEN [i \in DOMAIN rows |-> Num(ParseInt(rows[i][c]))]
    ELSE [i \in DOMAIN rows |-> Str(rows[i][c])]

\* pd.read_csv(path): idcols are integer columns, textcols hold names,
\* valuecols hold positions or points
read_csv(file, idcols, textcols, valuecols) ==
    LET rows == file.rows
    IN  [i \in DOMAIN rows |->
            [x \in {"index"} \cup idcols \cup textcols \cup valuecols |->
                IF x = "index" THEN i - 1
                ELSE IF x \in idcols THEN rows[i][x]
                ELSE IF x \in textcols THEN Str(rows[i][x])
                ELSE ReadColumn(rows, x)[i]]]

\* df.to_csv(path, index=False)
to_csv(df) ==
    File([i \in DOMAIN df |-> [x \in DOMAIN df[i] \ {"index"} |-> df[i][x]]])

\* ------------------------------------------------------------------------
\* The state of one run of process_f1_data
\* ------------------------------------------------------------------------
VARIABLES
    pc,                        \* the step the run is about to take
    data_dir,                  \* the input directory: file name -> file
    processed_data,            \* the output directory: file name -> file
    drivers_df, races_df, results_df, qualifying_df, constructors_df,
    merged_positions, positions_gained_df, average_positions_gained,
    total_career_races, total_career_races_df,
    results_df_clean, avg_finish_position, avg_finish_position_df,
    total_driver_points, total_driver_points_df,
    total_team_points, total_team_points_df

tables == <<drivers_df, races_df, results_df, qualifying_df, constructors_df>>
step1 == <<merged_positions, positions_gained_df, average_positions_gained>>
step2 == <<total_career_races, total_career_races_df>>
step3 == <<results_df_clean, avg_finish_position, avg_finish_position_df>>
step4 == <<total_driver_points, total_driver_points_df>>
step5 == <<total_team_points, total_team_points_df>>
locals == <<tables, step1, step2, step3, step4, step5>>
vars == <<pc, data_dir, processed_data, locals>>

AggregationSteps == {"positions_gained", "career_races", "finish_position",
                     "driver_points", "team_points"}

\* a name that is not bound (yet, or any more) holds the empty frame
Init ==
    /\ pc = "load"
    /\ \/ JoinInput(data_dir)
       \/ PositionInput(data_dir)
       \/ PointsInput(data_dir)
       \/ MissingInput(data_dir)
    /\ processed_data = [f \in OutputFiles |-> NoFile]
    /\ drivers_df = <<>>
    /\ races_df = <<>>
    /\ results_df = <<>>
    /\ qualifying_df = <<>>
    /\ constructors_df = <<>>
    /\ merged_positions = <<>>
    /\ positions_gained_df = <<>>
    /\ average_positions_gained = <<>>
    /\ total_career_races = <<>>
    /\ total_career_races_df = <<>>
    /\ results_df_clean = <<>>
    /\ avg_finish_position = <<>>
    /\ avg_finish_position_df = <<>>
    /\ total_driver_points = <<>>
    /\ total_driver_points_df = <<>>
    /\ total_team_points = <<>>
    /\ total_team_points_df = <<>>

\* the function returns or an exception leaves it: its locals are gone
LocalsDropped ==
    /\ drivers_df' = <<>>
    /\ races_df' = <<>>
    /\ results_df' = <<>>
    /\ qualifying_df' = <<>>
    /\ constructors_df' = <<>>
    /\ merged_positions' = <<>>
    /\ positions_gained_df' = <<>>
    /\ average_positions_gained' = <<>>
    /\ total_career_races' = <<>>
    /\ total_career_races_df' = <<>>
    /\ results_df_clean' = <<>>
    /\ avg_finish_position' = <<>>
    /\ avg_finish_position_df' = <<>>
    /\ total_driver_points' = <<>>
    /\ total_driver_points_df' = <<>>
    /\ total_team_points' = <<>>
    /\ total_team_points_df' = <<>>

\* ------------------------------------------------------------------------
\* Loading
\* ------------------------------------------------------------------------
AllFilesFound == \A f \in InputFiles : data_dir[f].exists

\* what pd.read_csv makes of each of the five files
ReadDrivers(dir) ==
    read_csv(dir["drivers.csv"], {"driverId"}, {"forename", "surname"}, {})
ReadRaces(dir) == read_csv(dir["races.csv"], {"raceId"}, {}, {})
ReadResults(dir) ==
    read_csv(dir["results.csv"], {"raceId", "driverId", "constructorId"}, {},
             {"positionOrder", "points"})
ReadQualifying(dir) ==
    read_csv(dir["qualifying.csv"], {"raceId", "driverId"}, {}, {"position"})
ReadConstructors(dir) ==
    read_csv(dir["constructors.csv"], {"constructorId"}, {"name"}, {})

\* the five pd.read_csv calls succeed
Load ==
    /\ pc = "load"
    /\ AllFilesFound
    /\ drivers_df' = ReadDrivers(data_dir)
    /\ races_df' = ReadRaces(data_dir)
    /\ results_df' = ReadResults(data_dir)
    /\ qualifying_df' = ReadQualifying(data_dir)
    /\ constructors_df' = ReadConstructors(data_dir)
    /\ pc' = "positions_gained"
    /\ UNCHANGED <<data_dir, processed_data, step1, step2, step3, step4, step5>>

\* a pd.read_csv call raises FileNotFoundError: the handler prints and returns
LoadFileNotFound ==
    /\ pc = "load"
    /\ ~AllFilesFound
    /\ pc' = "aborted"
    /\ LocalsDropped
    /\ UNCHANGED <<data_dir, processed_data>>

\* ------------------------------------------------------------------------
\* 1. Average positions gained
\* ------------------------------------------------------------------------
qualifying_positions(qdf) ==
    Rename(Project(qdf, {"raceId", "driverId", "position"}),
           "position", "qualifyingPosition")

race_finish_positions(rdf) ==
    Rename(Project(rdf, {"raceId", "driverId", "positionOrder"}),
           "positionOrder", "raceFinishPosition")

\* the merge of the two position frames
MergePositions(qdf, rdf) ==
    merge(qualifying_positions(qdf), race_finish_positions(rdf),
          {"raceId", "driverId"}, {"raceFinishPosition"}, "inner")

\* the positions made numeric, without the dropna
NumericPositionsKeepNaN(m) ==
    Assign(Assign(m, "qualifyingPosition", to_numeric(Col(m, "qualifyingPosition"))),
           "raceFinishPosition", to_numeric(Col(m, "raceFinishPosition")))

\* both positions made numeric, the rows without a number dropped
NumericPositions(m) ==
    dropna(Assign(Assign(m, "qualifyingPosition", to_numeric(Col(m, "qualifyingPosition"))),
                  "raceFinishPosition", to_numeric(Col(m, "raceFinishPosition"))),
           {"qualifyingPosition", "raceFinishPosition"})

MergedPositions(qdf, rdf) ==
    LET m == NumericPositions(MergePositions(qdf, rdf))
    IN  Assign(m, "positionsGained",
               Minus(Col(m, "qualifyingPosition"), Col(m, "raceFinishPosition")))

\* df['driverName'] = df['forename'] + ' ' + df['surname']
WithFullName(df) ==
    Assign(df, "driverName", SpaceJoined(Col(df, "forename"), Col(df, "surname")))

\* the drivers' names attached by an inner merge
MergeDriversInner(df, ddf) ==
    merge(df, Project(ddf, {"driverId", "forename", "surname"}),
          {"driverId"}, {"forename", "surname"}, "inner")

\* the merge that attaches the drivers' names
MergeDrivers(df, ddf) ==
    merge(df, Project(ddf, {"driverId", "forename", "surname"}),
          {"driverId"}, {"forename", "surname"}, "left")

PositionsGainedDf(mp, ddf) == WithFullName(MergeDrivers(mp, ddf))

AveragePositionsGained(pg) ==
    sort_values(Rename(groupby_name(pg, "driverName", "positionsGained", "mean"),
                       "positionsGained", "AveragePositionsGained"),
                "AveragePositionsGained", FALSE)

\* the step with its file written as soon as the frame is there
PositionsGainedStepWritesFile ==
    /\ pc = "positions_gained"
    /\ merged_positions' = MergedPositions(qualifying_df, results_df)
    /\ positions_gained_df' = PositionsGainedDf(merged_positions', drivers_df)
    /\ average_positions_gained' = AveragePositionsGained(positions_gained_df')
    /\ processed_data' =
        [processed_data EXCEPT !["average_positions_gained.csv"] =
            to_csv(average_positions_gained')]
    /\ pc' = "career_races"
    /\ UNCHANGED <<data_dir, tables, step2, step3, step4, step5>>

PositionsGainedStep ==
    /\ pc = "positions_gained"
    /\ merged_positions' = MergedPositions(qualifying_df, results_df)
    /\ positions_gained_df' = PositionsGainedDf(merged_positions', drivers_df)
    /\ average_positions_gained' = AveragePositionsGained(positions_gained_df')
    /\ pc' = "career_races"
    /\ UNCHANGED <<data_dir, processed_data, tables, step2, step3, step4, step5>>

\* ------------------------------------------------------------------------
\* 2. Total career races
\* ------------------------------------------------------------------------
TotalCareerRaces(rdf) ==
    Rename(groupby_id(rdf, "driverId", "raceId", "nunique"),
           "raceId", "TotalCareerRaces")

\* the frame aggregated once more by the name of the driver
WithDriverNameGrouped(agg, ddf, metric) ==
    groupby_name(WithFullName(MergeDrivers(agg, ddf)), "driverName", metric, "sum")

\* the frame with the drivers' names attached, reduced to name and metric
WithDriverName(agg, ddf, metric) ==
    Project(WithFullName(MergeDrivers(agg, ddf)), {"driverName", metric})

TotalCareerRacesDf(agg, ddf) ==
    sort_values(WithDriverName(agg, ddf, "TotalCareerRaces"),
                "TotalCareerRaces", FALSE)

CareerRacesStep ==
    /\ pc = "career_races"
    /\ total_career_races' = TotalCareerRaces(results_df)
    /\ total_career_races_df' = TotalCareerRacesDf(total_career_races', drivers_df)
    /\ pc' = "finish_position"
    /\ UNCHANGED <<data_dir, processed_data, tables, step1, step3, step4, step5>>

\* ------------------------------------------------------------------------
\* 3. Average career finish position
\* ------------------------------------------------------------------------
\* all rows kept, a positionOrder that is no number counted as 0
ResultsDfCleanZero(rdf) ==
    Assign(rdf, "positionOrder",
           [i \in DOMAIN rdf |->
               IF notna(to_numeric_coerce(rdf[i].positionOrder))
               THEN to_numeric_coerce(rdf[i].positionOrder) ELSE Num(0)])

\* the rows with a numeric positionOrder, as a new frame; its positionOrder
\* is then made numeric (no row is left on which pd.to_numeric could raise)
ResultsDfClean(rdf) ==
    LET clean == SelectSeq(rdf, LAMBDA r : notna(to_numeric_coerce(r.positionOrder)))
    IN  Assign(clean, "positionOrder", to_numeric(Col(clean, "positionOrder")))

AvgFinishPosition(clean) ==
    Rename(groupby_id(clean, "driverId", "positionOrder", "mean"),
           "positionOrder", "AverageFinishPosition")

\* the frame sorted with ascending=False
AvgFinishPositionDfDescending(agg, ddf) ==
    sort_values(WithDriverName(agg, ddf, "AverageFinishPosition"),
                "AverageFinishPosition", FALSE)

AvgFinishPositionDf(agg, ddf) ==
    sort_values(WithDriverName(agg, ddf, "AverageFinishPosition"),
                "AverageFinishPosition", TRUE)

FinishPositionStep ==
    /\ pc = "finish_position"
    /\ results_df_clean' = ResultsDfClean(results_df)
    /\ avg_finish_position' = AvgFinishPosition(results_df_clean')
    /\ avg_finish_position_df' = AvgFinishPositionDf(avg_finish_position', drivers_df)
    /\ pc' = "driver_points"
    /\ UNCHANGED <<data_dir, processed_data, tables, step1, step2, step4, step5>>

\* ------------------------------------------------------------------------
\* 4. Total career points of the drivers
\* ------------------------------------------------------------------------
\* results_df['points'] = pd.to_numeric(results_df['points'], errors='coerce')
PointsCoerced(rdf) == Assign(rdf, "points", to_numeric(Col(rdf, "points")))

TotalDriverPoints(rdf) ==
    Rename(groupby_id(rdf, "driverId", "points", "sum"),
           "points", "TotalCareerPoints")

TotalDriverPointsDf(agg, ddf) ==
    sort_values(WithDriverName(agg, ddf, "TotalCareerPoints"),
                "TotalCareerPoints", FALSE)

DriverPointsStep ==
    /\ pc = "driver_points"
    /\ results_df' = PointsCoerced(results_df)
    /\ total_driver_points' = TotalDriverPoints(results_df')
    /\ total_driver_points_df' = TotalDriverPointsDf(total_driver_points', drivers_df)
    /\ pc' = "team_points"
    /\ UNCHANGED <<data_dir, processed_data, drivers_df, races_df, qualifying_df,
                   constructors_df, step1, step2, step3, step5>>

\* ------------------------------------------------------------------------
\* 5. Total points of the constructors
\* ------------------------------------------------------------------------
TotalTeamPoints(rdf) ==
    Rename(groupby_id(rdf, "constructorId", "points", "sum"),
           "points", "TotalTeamPoints")

\* the merge that attaches the constructors' names
MergeConstructors(agg, cdf) ==
    merge(agg, Project(cdf, {"constructorId", "name"}),
          {"constructorId"}, {"name"}, "left")

TotalTeamPointsDf(agg, cdf) ==
    sort_values(Project(Rename(MergeConstructors(agg, cdf), "name", "TeamName"),
                        {"TeamName", "TotalTeamPoints"}),
                "TotalTeamPoints", FALSE)

TeamPointsStep ==
    /\ pc = "team_points"
    /\ results_df' = PointsCoerced(results_df)
    /\ total_team_points' = TotalTeamPoints(results_df')
    /\ total_team_points_df' = TotalTeamPointsDf(total_team_points', constructors_df)
    /\ pc' = "save"
    /\ UNCHANGED <<data_dir, processed_data, drivers_df, races_df, qualifying_df,
                   constructors_df, step1, step2, step3, step4>>

\* ------------------------------------------------------------------------
\* An exception in an aggregation, and the writing of the files
\* ------------------------------------------------------------------------
\* no try block covers the aggregations: an exception raised in one of them
\* (a column that is not there, no memory) leaves process_f1_data at once
AggregationRaises ==
    /\ pc \in AggregationSteps
    /\ pc' = "aborted"
    /\ LocalsDropped
    /\ UNCHANGED <<data_dir, processed_data>>

Save ==
    /\ pc = "save"
    /\ processed_data' =
        [f \in OutputFiles |->
            CASE f = "average_positions_gained.csv" -> to_csv(average_positions_gained)
              [] f = "total_career_races.csv" -> to_csv(total_career_races_df)
              [] f = "average_career_finish_position.csv" -> to_csv(avg_finish_position_df)
              [] f = "total_career_points_drivers.csv" -> to_csv(total_driver_points_df)
              [] f = "total_career_points_teams.csv" -> to_csv(total_team_points_df)]
    /\ pc' = "done"
    /\ LocalsDropped
    /\ UNCHANGED data_dir

Next ==
    \/ Load
    \/ LoadFileNotFound
    \/ PositionsGainedStep
    \/ CareerRacesStep
    \/ FinishPositionStep
    \/ DriverPointsStep
    \/ TeamPointsStep
    \/ AggregationRaises
    \/ Save

Spec == Init /\ [][Next]_vars

\* ------------------------------------------------------------------------
\* What the tables on disk say, computed row by row from the CSV files
\* ------------------------------------------------------------------------
ResultsCsv == data_dir["results.csv"].rows
QualifyingCsv == data_dir["qualifying.csv"].rows
DriversCsv == data_dir["drivers.csv"].rows
ConstructorsCsv == data_dir["constructors.csv"].rows

IsNumber(t) == t # RetiredCode

RECURSIVE SumOf(_, _)
SumOf(S, f) ==
    IF S = {} THEN 0
    ELSE LET x == CHOOSE y \in S : TRUE IN f[x] + SumOf(S \ {x}, f)

ResultsOfDriver(d) == {i \in DOMAIN ResultsCsv : ResultsCsv[i].driverId = d}
ResultsOfTeam(c) == {i \in DOMAIN ResultsCsv : ResultsCsv[i].constructorId = c}
FinishesOfDriver(d) ==
    {i \in ResultsOfDriver(d) : IsNumber(ResultsCsv[i].positionOrder)}
RacesOfDriver(d) == {ResultsCsv[i].raceId : i \in ResultsOfDriver(d)}
PointsOf(I) ==
    SumOf({i \in I : IsNumber(ResultsCsv[i].points)},
          [i \in DOMAIN ResultsCsv |-> ParseInt(ResultsCsv[i].points)])
FinishSum(d) ==
    SumOf(FinishesOfDriver(d),
          [i \in DOMAIN ResultsCsv |-> ParseInt(ResultsCsv[i].positionOrder)])

HasDriverRow(d) == \E i \in DOMAIN DriversCsv : DriversCsv[i].driverId = d
HasConstructorRow(c) ==
    \E i \in DOMAIN ConstructorsCsv : ConstructorsCsv[i].constructorId = c
\* the full name of a driver of drivers.csv
NameOfDriver(d) ==
    LET r == DriversCsv[CHOOSE i \in DOMAIN DriversCsv : DriversCsv[i].driverId = d]
    IN  r.forename \o " " \o r.surname

\* the (qualifying row, result row) pairs of one race and driver whose two
\* positions are numbers
NumericPairs ==
    {p \in (DOMAIN QualifyingCsv) \X (DOMAIN ResultsCsv) :
        /\ QualifyingCsv[p[1]].raceId = ResultsCsv[p[2]].raceId
        /\ QualifyingCsv[p[1]].driverId = ResultsCsv[p[2]].driverId
        /\ IsNumber(QualifyingCsv[p[1]].position)
        /\ IsNumber(ResultsCsv[p[2]].positionOrder)}
PairsOfDriver(d) == {p \in NumericPairs : ResultsCsv[p[2]].driverId = d}
PairsOfName(name) ==
    {p \in NumericPairs :
        /\ HasDriverRow(ResultsCsv[p[2]].driverId)
        /\ NameOfDriver(ResultsCsv[p[2]].driverId) = name}
Gain ==
    [p \in (DOMAIN QualifyingCsv) \X (DOMAIN ResultsCsv) |->
        IF p \in NumericPairs
        THEN ParseInt(QualifyingCsv[p[1]].position)
             - ParseInt(ResultsCsv[p[2]].positionOrder)
        ELSE 0]

\* the cell c holds the number n/d
IsRatio(c, n, d) == c.k = "num" /\ c.n * d = n * c.d

\* the rows of the frame agg whose key column holds k
RowsOfKey(agg, key, k) == {i \in DOMAIN agg : agg[i][key] = k}

Loaded == pc \in AggregationSteps \cup {"save"}
After1 == pc \in {"career_races", "finish_position", "driver_points",
                  "team_points", "save"}
After2 == pc \in {"finish_position", "driver_points", "team_points", "save"}
After3 == pc \in {"driver_points", "team_points", "save"}
After4 == pc \in {"team_points", "save"}
After5 == pc = "save"

\* ------------------------------------------------------------------------
\* C1
\* ------------------------------------------------------------------------
SomeFileWritten == \E f \in OutputFiles : processed_data[f].exists

\* C1: an output file exists only when the run is complete: all five input
\* files were found, all five aggregations ran and all five files were
\* written; a run that stopped at a missing file or in an aggregation has
\* written nothing.
C1_NoPartialOutput ==
    /\ SomeFileWritten =>
        /\ pc = "done"
        /\ AllFilesFound
        /\ \A f \in OutputFiles : processed_data[f].exists
    /\ pc = "aborted" => ~SomeFileWritten

C1_Witness ==
    /\ pc = "aborted"
    /\ ~data_dir["qualifying.csv"].exists
    /\ \A f \in InputFiles \ {"qualifying.csv"} : data_dir[f].exists
    /\ ~SomeFileWritten

\* ------------------------------------------------------------------------
\* C2
\* ------------------------------------------------------------------------
\* C2: every row of average_positions_gained carries a driver name, and its
\* AveragePositionsGained is the mean of qualifying position minus finishing
\* position over exactly the pairs of a qualifying row and a result row of
\* the same race and driver, both positions numeric, of the drivers of that
\* name; each name with such a pair has one row.
C2_MeanOverNumericPairs ==
    After1 =>
        /\ \A i \in DOMAIN average_positions_gained :
            LET row == average_positions_gained[i]
                P == PairsOfName(row.driverName.s)
            IN  /\ row.driverName.k = "str"
                /\ P # {}
                /\ IsRatio(row.AveragePositionsGained, SumOf(P, Gain), Cardinality(P))
        /\ \A d \in DriverIds :
            (HasDriverRow(d) /\ PairsOfDriver(d) # {}) =>
                Cardinality(RowsOfKey(average_positions_gained, "driverName",
                                      Str(NameOfDriver(d)))) = 1

\* a driver of the output who also has a qualifying row and a result row of
\* one race of which a position is a retirement code
C2_Witness ==
    /\ After1
    /\ \E d \in DriverIds :
        /\ HasDriverRow(d)
        /\ PairsOfDriver(d) # {}
        /\ RowsOfKey(average_positions_gained, "driverName", Str(NameOfDriver(d))) # {}
        /\ \E i \in DOMAIN QualifyingCsv, j \in DOMAIN ResultsCsv :
            /\ QualifyingCsv[i].driverId = d
            /\ ResultsCsv[j].driverId = d
            /\ ResultsCsv[j].raceId = QualifyingCsv[i].raceId
            /\ ~(IsNumber(QualifyingCsv[i].position) /\ IsNumber(ResultsCsv[j].positionOrder))

\* ------------------------------------------------------------------------
\* C3
\* ------------------------------------------------------------------------
\* C3: for every driverId, AverageFinishPosition is the mean of positionOrder
\* over the driver's result rows with a numeric positionOrder, and no other
\* row counts in the sum or in the number of rows; the output frame holds the
\* same value under the same index label.
C3_MeanOverNumericFinishes ==
    After3 =>
        \A d \in DriverIds :
            LET R == RowsOfKey(avg_finish_position, "driverId", d)
                F == FinishesOfDriver(d)
            IN  IF F = {} THEN R = {}
                ELSE /\ Cardinality(R) = 1
                     /\ \A i \in R :
                        /\ IsRatio(avg_finish_position[i].AverageFinishPosition,
                                   FinishSum(d), Cardinality(F))
                        /\ avg_finish_position[i].index \in Labels(avg_finish_position_df)
                        /\ Loc(avg_finish_position_df, avg_finish_position[i].index).AverageFinishPosition
                            = avg_finish_position[i].AverageFinishPosition

\* a driver with the positions 1 and 2 and one R row has the mean 1.5
C3_Witness ==
    /\ After3
    /\ \E d \in DriverIds :
        /\ {ResultsCsv[i].positionOrder : i \in ResultsOfDriver(d)} = {"1", "2", RetiredCode}
        /\ Cardinality(ResultsOfDriver(d)) = 3
        /\ \E i \in DOMAIN avg_finish_position :
            /\ avg_finish_position[i].driverId = d
            /\ avg_finish_position[i].AverageFinishPosition = Rat(3, 2)

\* ------------------------------------------------------------------------
\* C4
\* ------------------------------------------------------------------------
\* the frame df holds, under the index label of row i of agg, the value
\* that agg holds in the column metric
SameMetric(agg, df, i, metric) ==
    /\ agg[i].index \in Labels(df)
    /\ Loc(df, agg[i].index)[metric] = agg[i][metric]

\* C4: for every driverId of the results, TotalCareerRaces is the number of
\* distinct raceId values of all of the driver's result rows, whatever their
\* positionOrder and points; a driver without a result row has no row.
C4_DistinctRacesCounted ==
    After2 =>
        \A d \in DriverIds :
            LET R == RowsOfKey(total_career_races, "driverId", d)
            IN  IF ResultsOfDriver(d) = {} THEN R = {}
                ELSE /\ Cardinality(R) = 1
                     /\ \A i \in R :
                        /\ total_career_races[i].TotalCareerRaces
                            = Num(Cardinality(RacesOfDriver(d)))
                        /\ SameMetric(total_career_races, total_career_races_df,
                                      i, "TotalCareerRaces")

\* a driver with two rows of one race, and with a race of which the only
\* row holds a retirement code
C4_Witness ==
    /\ After2
    /\ \E d \in DriverIds :
        /\ Cardinality(ResultsOfDriver(d)) > Cardinality(RacesOfDriver(d))
        /\ \E r \in RacesOfDriver(d) :
            \A i \in ResultsOfDriver(d) :
                ResultsCsv[i].raceId = r => ~IsNumber(ResultsCsv[i].positionOrder)
        /\ \E i \in DOMAIN total_career_races_df :
            total_career_races_df[i].TotalCareerRaces = Num(2)

\* ------------------------------------------------------------------------
\* C5
\* ------------------------------------------------------------------------
\* C5: TotalCareerPoints of a driverId and TotalTeamPoints of a
\* constructorId are the sum of the numeric points of the key's result rows,
\* a non-numeric points cell adding 0; a key has a row exactly when it has
\* a result row.
C5_PointsSummed ==
    /\ After4 =>
        \A d \in DriverIds :
            LET R == RowsOfKey(total_driver_points, "driverId", d)
            IN  IF ResultsOfDriver(d) = {} THEN R = {}
                ELSE /\ Cardinality(R) = 1
                     /\ \A i \in R :
                        /\ total_driver_points[i].TotalCareerPoints
                            = Num(PointsOf(ResultsOfDriver(d)))
                        /\ SameMetric(total_driver_points, total_driver_points_df,
                                      i, "TotalCareerPoints")
    /\ After5 =>
        \A c \in ConstructorIds :
            LET R == RowsOfKey(total_team_points, "constructorId", c)
            IN  IF ResultsOfTeam(c) = {} THEN R = {}
                ELSE /\ Cardinality(R) = 1
                     /\ \A i \in R :
                        /\ total_team_points[i].TotalTeamPoints
                            = Num(PointsOf(ResultsOfTeam(c)))
                        /\ SameMetric(total_team_points, total_team_points_df,
                                      i, "TotalTeamPoints")

\* a driver whose rows all hold non-numeric points has the total 0, a
\* constructor has numeric and non-numeric points, a driver has no row
C5_Witness ==
    /\ After5
    /\ \E d \in DriverIds :
        /\ ResultsOfDriver(d) # {}
        /\ \A i \in ResultsOfDriver(d) : ~IsNumber(ResultsCsv[i].points)
        /\ \E i \in DOMAIN total_driver_points :
            /\ total_driver_points[i].driverId = d
            /\ total_driver_points[i].TotalCareerPoints = Num(0)
    /\ \E c \in ConstructorIds :
        /\ \E i \in ResultsOfTeam(c) : ~IsNumber(ResultsCsv[i].points)
        /\ \E i \in DOMAIN total_team_points :
            /\ total_team_points[i].constructorId = c
            /\ total_team_points[i].TotalTeamPoints = Num(3)

\* ------------------------------------------------------------------------
\* C6
\* ------------------------------------------------------------------------
DriversWithResults == {d \in DriverIds : ResultsOfDriver(d) # {}}
DriversWithFinishes == {d \in DriverIds : FinishesOfDriver(d) # {}}

\* the output frame df has one row for each driverId of ids, and the row of
\* driver d holds the metric value[d]
OneRowPerDriver(agg, df, metric, ids, value) ==
    /\ Len(df) = Cardinality(ids)
    /\ Labels(df) = Labels(agg)
    /\ \A d \in ids :
        \E i \in DOMAIN agg :
            /\ agg[i].driverId = d
            /\ SameMetric(agg, df, i, metric)
            /\ IsRatio(agg[i][metric], value[d][1], value[d][2])

\* C6: the three career outputs are aggregated by driverId: each has exactly
\* one row per aggregated driverId, holding that driver's own metric, also
\* when two driverIds carry the same forename and surname.
C6_KeyedByDriverId ==
    After5 =>
        /\ OneRowPerDriver(total_career_races, total_career_races_df,
                           "TotalCareerRaces", DriversWithResults,
                           [d \in DriverIds |-> <<Cardinality(RacesOfDriver(d)), 1>>])
        /\ OneRowPerDriver(avg_finish_position, avg_finish_position_df,
                           "AverageFinishPosition", DriversWithFinishes,
                           [d \in DriverIds |-> <<FinishSum(d), Cardinality(FinishesOfDriver(d))>>])
        /\ OneRowPerDriver(total_driver_points, total_driver_points_df,
                           "TotalCareerPoints", DriversWithResults,
                           [d \in DriverIds |-> <<PointsOf(ResultsOfDriver(d)), 1>>])

\* two drivers of one name with different numbers of races and different
\* mean finishing positions
C6_Witness ==
    /\ After5
    /\ \E d1, d2 \in DriversWithFinishes :
        /\ d1 # d2
        /\ HasDriverRow(d1) /\ HasDriverRow(d2)
        /\ NameOfDriver(d1) = NameOfDriver(d2)
        /\ Cardinality(RacesOfDriver(d1)) # Cardinality(RacesOfDriver(d2))
        /\ total_career_races_df[1].driverName = total_career_races_df[2].driverName
        /\ avg_finish_position_df[1].AverageFinishPosition
            # avg_finish_position_df[2].AverageFinishPosition

\* ------------------------------------------------------------------------
\* C7
\* ------------------------------------------------------------------------
\* the row of df for the key k of agg has a NaN label and the metric n
NullLabelRow(agg, df, key, k, label, metric, n) ==
    \E i \in DOMAIN agg :
        /\ agg[i][key] = k
        /\ agg[i].index \in Labels(df)
        /\ Loc(df, agg[i].index)[label] = NaN
        /\ IsRatio(Loc(df, agg[i].index)[metric], n[1], n[2])

\* C7: a driverId of the results without a row in drivers.csv keeps its row
\* in the three career outputs, with a null driverName and its metric; a
\* constructorId without a row in constructors.csv keeps its row, with a
\* null TeamName and its total.
C7_UnresolvedKeyKeepsRow ==
    After5 =>
        /\ \A d \in DriversWithResults :
            ~HasDriverRow(d) =>
                /\ NullLabelRow(total_career_races, total_career_races_df, "driverId", d,
                                "driverName", "TotalCareerRaces",
                                <<Cardinality(RacesOfDriver(d)), 1>>)
                /\ NullLabelRow(total_driver_points, total_driver_points_df, "driverId", d,
                                "driverName", "TotalCareerPoints",
                                <<PointsOf(ResultsOfDriver(d)), 1>>)
                /\ d \in DriversWithFinishes =>
                    NullLabelRow(avg_finish_position, avg_finish_position_df, "driverId", d,
                                 "driverName", "AverageFinishPosition",
                                 <<FinishSum(d), Cardinality(FinishesOfDriver(d))>>)
        /\ \A c \in ConstructorIds :
            (ResultsOfTeam(c) # {} /\ ~HasConstructorRow(c)) =>
                NullLabelRow(total_team_points, total_team_points_df, "constructorId", c,
                             "TeamName", "TotalTeamPoints",
                             <<PointsOf(ResultsOfTeam(c)), 1>>)

\* a driver and a constructor with results and without a name
C7_Witness ==
    /\ After5
    /\ \E d \in DriversWithResults : ~HasDriverRow(d)
    /\ \E d \in DriversWithResults : HasDriverRow(d)
    /\ \E c \in ConstructorIds : ResultsOfTeam(c) # {} /\ ~HasConstructorRow(c)
    /\ \E i \in DOMAIN total_driver_points_df :
        total_driver_points_df[i].driverName = NaN
    /\ \E i \in DOMAIN total_team_points_df :
        total_team_points_df[i].TeamName = NaN

\* ------------------------------------------------------------------------
\* C8
\* ------------------------------------------------------------------------
\* C8: a driverId with a numeric pair of qualifying and finishing position
\* and without a row in drivers.csv has a row in average_positions_gained,
\* with a null driverName.
C8_UnnamedDriverKept ==
    After1 =>
        \A d \in DriverIds :
            (PairsOfDriver(d) # {} /\ ~HasDriverRow(d)) =>
                \E i \in DOMAIN average_positions_gained :
                    average_positions_gained[i].driverName = NaN

\* ------------------------------------------------------------------------
\* C9
\* ------------------------------------------------------------------------
NonIncreasing(df, col) ==
    \A i, j \in DOMAIN df : i < j => ~Less(df[i][col], df[j][col])
NonDecreasing(df, col) ==
    \A i, j \in DOMAIN df : i < j => ~Less(df[j][col], df[i][col])

\* C9: the four outputs sorted descending are non-increasing in their metric
\* from the first row to the last, and average_career_finish_position is
\* non-decreasing in AverageFinishPosition.
C9_OutputsSorted ==
    /\ After1 => NonIncreasing(average_positions_gained, "AveragePositionsGained")
    /\ After2 => NonIncreasing(total_career_races_df, "TotalCareerRaces")
    /\ After3 => NonDecreasing(avg_finish_position_df, "AverageFinishPosition")
    /\ After4 => NonIncreasing(total_driver_points_df, "TotalCareerPoints")
    /\ After5 => NonIncreasing(total_team_points_df, "TotalTeamPoints")

\* the sort moved rows: the first row of an output is not the row of the
\* smallest key
C9_Witness ==
    /\ After5
    /\ Len(avg_finish_position_df) = 2
    /\ avg_finish_position_df[1].index = 1
    /\ Less(avg_finish_position_df[1].AverageFinishPosition,
            avg_finish_position_df[2].AverageFinishPosition)
    /\ Len(total_career_races_df) = 2
    /\ total_career_races_df[1].index = 1
    /\ Less(total_career_races_df[2].TotalCareerRaces,
            total_career_races_df[1].TotalCareerRaces)

\* ------------------------------------------------------------------------
\* C10
\* ------------------------------------------------------------------------
\* C10: once loaded, the five tables stay what pd.read_csv produced, through
\* all five aggregations.
C10_TablesImmutable ==
    Loaded =>
        /\ drivers_df = ReadDrivers(data_dir)
        /\ races_df = ReadRaces(data_dir)
        /\ results_df = ReadResults(data_dir)
        /\ qualifying_df = ReadQualifying(data_dir)
        /\ constructors_df = ReadConstructors(data_dir)

====
